---- MODULE Spec2Model ----
(***************************************************************************)
(* Notes API (task_05): the in-memory record store notesStorage.js, the    *)
(* zod request validation and the controllers that call the store.         *)
(*                                                                         *)
(* JavaScript values are records [t |-> type, v |-> value]; a JavaScript   *)
(* string is a tuple of one-character strings, an object is a function     *)
(* from its own keys to values (an absent key reads as undefined).         *)
(* toISOString() of a Date is carried as the millisecond count it prints:  *)
(* the printed form is fixed-width, so equality and order of the strings   *)
(* are equality and order of the counts.                                   *)
(***************************************************************************)
EXTENDS Integers, Sequences, FiniteSets, TLC

VARIABLES notes, currentId, clock, res, issued, deleted

\* notes, currentId: the module state of notesStorage.js; clock: the millisecond
\* new Date() reads; res: the last response; issued, deleted: history, the ids
\* create has returned (in call order) and the ids delete has removed
vars == <<notes, currentId, clock, res, issued, deleted>>

\* ------------------------------------------------------------------ bounds
MaxId == 2
MaxClock == 1
MaxListNotes == 2

\* ------------------------------------------------- schema and store constants
TitleMax == 100
ContentMax == 1000
TagMax == 20
TagsMax == 10
DefaultLimit == 10
DefaultOffset == 0

\* ------------------------------------------------------- JavaScript values
Undefined == [t |-> "undefined", v |-> 0]
Null == [t |-> "null", v |-> 0]
NaN == [t |-> "NaN", v |-> 0]
Num(n) == [t |-> "number", v |-> n]
Bool(b) == [t |-> "boolean", v |-> b]
Str(s) == [t |-> "string", v |-> s]
Arr(a) == [t |-> "array", v |-> a]
Iso(ms) == [t |-> "isodate", v |-> ms]

Min(a, b) == IF a < b THEN a ELSE b
Max(a, b) == IF a > b THEN a ELSE b

\* obj.key
Get(obj, k) == IF k \in DOMAIN obj THEN obj[k] ELSE Undefined

\* { ...a, ...b }
Spread(a, b) == [k \in DOMAIN a \cup DOMAIN b |-> IF k \in DOMAIN b THEN b[k] ELSE a[k]]

\* a === b
StrictEq(a, b) == a.t = b.t /\ a.t # "NaN" /\ a.v = b.v

\* the truthiness test of if (x), x && y, x || y, !x
Truthy(x) ==
  CASE x.t \in {"undefined", "null", "NaN"} -> FALSE
    [] x.t = "boolean" -> x.v
    [] x.t = "number" -> x.v # 0
    [] x.t = "string" -> x.v # <<>>
    [] OTHER -> TRUE

IsNote(x) == "id" \in DOMAIN x

\* ----------------------------------------------------------------- strings
toLowerCaseChar(c) ==
  CASE c = "A" -> "a"
    [] c = "B" -> "b"
    [] c = "W" -> "w"
    [] OTHER -> c

\* String.prototype.toLowerCase
toLowerCase(s) == [i \in 1..Len(s) |-> toLowerCaseChar(s[i])]

\* String.prototype.includes
includes(s, sub) ==
  \E i \in 0..(Len(s) - Len(sub)) : SubSeq(s, i + 1, i + Len(sub)) = sub

Digits == <<"0", "1", "2", "3", "4", "5", "6", "7", "8", "9">>

IsDigit(c) == \E d \in 1..10 : Digits[d] = c

DigitValue(c) == (CHOOSE d \in 1..10 : Digits[d] = c) - 1

RECURSIVE NatToStr(_)
NatToStr(n) ==
  IF n < 10 THEN <<Digits[n + 1]>> ELSE NatToStr(n \div 10) \o <<Digits[(n % 10) + 1]>>

\* String(x), the conversion parseInt applies to its argument
toStr(x) ==
  CASE x.t = "string" -> x.v
    [] x.t = "number" -> IF x.v < 0 THEN <<"-">> \o NatToStr(-x.v) ELSE NatToStr(x.v)
    [] x.t = "boolean" -> IF x.v THEN <<"t", "r", "u", "e">> ELSE <<"f", "a", "l", "s", "e">>
    [] x.t = "null" -> <<"n", "u", "l", "l">>
    [] x.t = "NaN" -> <<"N", "a", "N">>
    [] OTHER -> <<"u", "n", "d", "e", "f", "i", "n", "e", "d">>

RECURSIVE TrimStart(_)
TrimStart(s) == IF s # <<>> /\ Head(s) = " " THEN TrimStart(Tail(s)) ELSE s

RECURSIVE DigitPrefixLen(_)
DigitPrefixLen(s) ==
  IF s # <<>> /\ IsDigit(Head(s)) THEN 1 + DigitPrefixLen(Tail(s)) ELSE 0

RECURSIVE DigitsToNat(_, _)
DigitsToNat(s, acc) ==
  IF s = <<>> THEN acc ELSE DigitsToNat(Tail(s), acc * 10 + DigitValue(Head(s)))

\* parseInt(x) with no radix, on decimal input: leading blanks, an optional
\* sign, then the longest run of digits; NaN when that run is empty
parseInt(x) ==
  LET s == TrimStart(toStr(x))
      signed == s # <<>> /\ Head(s) \in {"-", "+"}
      body == IF signed THEN Tail(s) ELSE s
      n == DigitPrefixLen(body)
      magnitude == DigitsToNat(SubSeq(body, 1, n), 0)
  IN IF n = 0 THEN NaN
     ELSE IF signed /\ Head(s) = "-" THEN Num(0 - magnitude) ELSE Num(magnitude)

\* ------------------------------------------------------------------ arrays
\* the index Array.prototype.slice clamps a bound to
sliceIndex(k, len) == IF k < 0 THEN Max(len + k, 0) ELSE Min(k, len)

\* Array.prototype.slice(start, end)
slice(a, start, end) ==
  LET from == sliceIndex(start, Len(a))
      to == sliceIndex(end, Len(a))
  IN IF from >= to THEN <<>> ELSE SubSeq(a, from + 1, to)

\* Array.prototype.includes on an array of values
arrayIncludes(a, x) == \E i \in 1..Len(a) : StrictEq(a[i], x)

\* ------------------------------------------------------------ notesStorage
\* generateId that hands out the counter without advancing it
generateIdNoIncrement(c) == [value |-> c, next |-> c]

\* const generateId = () => currentId++ : the value returned and the counter left
generateId(c) == [value |-> c, next |-> c + 1]

\* the length property as the tags guard reads it
lengthOf(x) == IF x.t \in {"string", "array"} THEN Num(Len(x.v)) ELSE Undefined

\* the q predicate without toLowerCase on the note's text
matchesQueryCaseSensitive(note, query) ==
  \/ includes(note["title"].v, query)
  \/ includes(note["content"].v, query)

\* the q predicate: title or content contains the lower-cased query
matchesQuery(note, query) ==
  \/ includes(toLowerCase(note["title"].v), query)
  \/ includes(toLowerCase(note["content"].v), query)

\* the tags predicate: filters.tags.some(tag => note.tags.includes(tag))
matchesTags(note, tags) ==
  \E i \in 1..Len(tags.v) : arrayIncludes(note["tags"].v, tags.v[i])

\* the notes left after the four filters, in collection order
filterNotes(ns, filters) ==
  LET q == Get(filters, "q")
      afterQ == IF Truthy(q)
                THEN SelectSeq(ns, LAMBDA n : matchesQuery(n, toLowerCase(q.v)))
                ELSE ns
      tags == Get(filters, "tags")
      tagsOn == Truthy(tags) /\ lengthOf(tags).t = "number" /\ lengthOf(tags).v > 0
      afterTags == IF tagsOn
                   THEN SelectSeq(afterQ, LAMBDA n : matchesTags(n, tags))
                   ELSE afterQ
      isArchived == Get(filters, "isArchived")
      afterArchived == IF isArchived.t # "undefined"
                       THEN SelectSeq(afterTags, LAMBDA n : StrictEq(n["isArchived"], isArchived))
                       ELSE afterTags
      isDone == Get(filters, "isDone")
  IN IF isDone.t # "undefined"
     THEN SelectSeq(afterArchived, LAMBDA n : StrictEq(n["isDone"], isDone))
     ELSE afterArchived

\* getAll raises a TypeError when q is truthy and has no toLowerCase, or when
\* the tags predicate runs on a note with a filters.tags that has no some()
getAllThrows(ns, filters) ==
  LET q == Get(filters, "q")
      tags == Get(filters, "tags")
  IN \/ Truthy(q) /\ q.t # "string"
     \/ /\ Truthy(tags) /\ tags.t = "string"
        /\ (IF Truthy(q) THEN SelectSeq(ns, LAMBDA n : matchesQuery(n, toLowerCase(q.v)))
            ELSE ns) # <<>>

\* parseInt(filters.limit) || 10
parseLimit(filters) ==
  LET p == parseInt(Get(filters, "limit")) IN IF Truthy(p) THEN p.v ELSE DefaultLimit

\* parseInt(filters.offset) || 0
parseOffset(filters) ==
  LET p == parseInt(Get(filters, "offset")) IN IF Truthy(p) THEN p.v ELSE DefaultOffset

getAll(ns, filters) ==
  IF getAllThrows(ns, filters) THEN [threw |-> TRUE]
  ELSE LET filteredNotes == filterNotes(ns, filters)
           limit == parseLimit(filters)
           offset == parseOffset(filters)
           total == Len(filteredNotes)
       IN [threw |-> FALSE,
           notes |-> slice(filteredNotes, offset, offset + limit),
           total |-> total,
           limit |-> limit,
           offset |-> offset,
           hasMore |-> offset + limit < total]

\* notes.findIndex(note => note.id === id), 1-based; 0 stands for -1
findIndex(ns, id) ==
  IF \E i \in 1..Len(ns) : StrictEq(ns[i]["id"], id)
  THEN CHOOSE i \in 1..Len(ns) :
         /\ StrictEq(ns[i]["id"], id)
         /\ \A j \in 1..(i - 1) : ~StrictEq(ns[j]["id"], id)
  ELSE 0

getById(ns, id) ==
  LET i == findIndex(ns, id) IN IF i = 0 THEN Undefined ELSE ns[i]

\* create with the two clock readings t1 (createdAt) and t2 (updatedAt)
create(ns, c, noteData, t1, t2) ==
  LET g == generateId(c)
      newNote == Spread(Spread([id |-> Num(g.value)], noteData),
                        [isArchived |-> Bool(FALSE), isDone |-> Bool(FALSE),
                         createdAt |-> Iso(t1), updatedAt |-> Iso(t2)])
  IN [notes |-> Append(ns, newNote), currentId |-> g.next, ret |-> newNote]

\* update that writes updateData back without the fields of the stored note
updateNoSpread(ns, id, updateData, t) ==
  LET noteIndex == findIndex(ns, id)
  IN IF noteIndex = 0 THEN [notes |-> ns, ret |-> Null]
     ELSE LET merged == Spread(Spread([id |-> ns[noteIndex]["id"]], updateData),
                               [updatedAt |-> Iso(t)])
          IN [notes |-> [ns EXCEPT ![noteIndex] = merged], ret |-> merged]

update(ns, id, updateData, t) ==
  LET noteIndex == findIndex(ns, id)
  IN IF noteIndex = 0 THEN [notes |-> ns, ret |-> Null]
     ELSE LET merged == Spread(Spread(ns[noteIndex], updateData), [updatedAt |-> Iso(t)])
          IN [notes |-> [ns EXCEPT ![noteIndex] = merged], ret |-> merged]

\* notes.splice(noteIndex, 1)
splice1(ns, i) == SubSeq(ns, 1, i - 1) \o SubSeq(ns, i + 1, Len(ns))

\* delete that removes the last note, whichever id was found
deleteLast(ns, id) ==
  LET noteIndex == findIndex(ns, id)
  IN IF noteIndex = 0 THEN [notes |-> ns, ret |-> Bool(FALSE)]
     ELSE [notes |-> splice1(ns, Len(ns)), ret |-> Bool(TRUE)]

\* delete without the noteIndex === -1 return: splice(-1, 1) removes the last note
deleteNoGuard(ns, id) ==
  LET noteIndex == findIndex(ns, id)
  IN IF noteIndex = 0
     THEN [notes |-> IF ns = <<>> THEN ns ELSE splice1(ns, Len(ns)), ret |-> Bool(TRUE)]
     ELSE [notes |-> splice1(ns, noteIndex), ret |-> Bool(TRUE)]

delete(ns, id) ==
  LET noteIndex == findIndex(ns, id)
  IN IF noteIndex = 0 THEN [notes |-> ns, ret |-> Bool(FALSE)]
     ELSE [notes |-> splice1(ns, noteIndex), ret |-> Bool(TRUE)]

\* archive, unarchive, markAsDone, markAsUndone: getById, then update of one flag
setFlag(ns, id, flag, value, t) ==
  IF ~IsNote(getById(ns, id)) THEN [notes |-> ns, ret |-> Null]
  ELSE update(ns, id, [k \in {flag} |-> Bool(value)], t)

\* archive that marks the note done as well
archiveAndDone(ns, id, t) ==
  IF ~IsNote(getById(ns, id)) THEN [notes |-> ns, ret |-> Null]
  ELSE update(ns, id, [isArchived |-> Bool(TRUE), isDone |-> Bool(TRUE)], t)

archive(ns, id, t) == setFlag(ns, id, "isArchived", TRUE, t)

unarchive(ns, id, t) == setFlag(ns, id, "isArchived", FALSE, t)

markAsDone(ns, id, t) == setFlag(ns, id, "isDone", TRUE, t)

markAsUndone(ns, id, t) == setFlag(ns, id, "isDone", FALSE, t)

\* -------------------------------------------------------------- validation
\* z.string().min(lo).max(hi)
stringOk(x, lo, hi) == x.t = "string" /\ Len(x.v) >= lo /\ Len(x.v) <= hi

\* z.array(z.string().min(1).max(20)).max(10)
tagsOk(x) ==
  /\ x.t = "array"
  /\ Len(x.v) <= TagsMax
  /\ \A i \in 1..Len(x.v) : stringOk(x.v[i], 1, TagMax)

\* z.string().datetime() on the form YYYY-MM-DDTHH:MM:SSZ
isDatetime(s) ==
  /\ Len(s) = 20
  /\ \A i \in {1, 2, 3, 4, 6, 7, 9, 10, 12, 13, 15, 16, 18, 19} : IsDigit(s[i])
  /\ s[5] = "-" /\ s[8] = "-" /\ s[11] = "T"
  /\ s[14] = ":" /\ s[17] = ":" /\ s[20] = "Z"

\* z.string().datetime().optional().nullable()
dueDateOk(x) == x.t \in {"undefined", "null"} \/ (x.t = "string" /\ isDatetime(x.v))

\* the fields of body that noteCreateSchema rejects
noteCreateIssues(body) ==
  {k \in {"title", "content", "tags", "dueDate"} :
     CASE k = "title" -> ~stringOk(Get(body, k), 1, TitleMax)
       [] k = "content" -> ~stringOk(Get(body, k), 1, ContentMax)
       [] k = "tags" -> Get(body, k).t # "undefined" /\ ~tagsOk(Get(body, k))
       [] OTHER -> ~dueDateOk(Get(body, k))}

\* what noteCreateSchema.parse returns: the recognised keys, tags defaulted to []
noteCreateSchema(body) ==
  [k \in {"title", "content", "tags"} \cup ({"dueDate"} \cap DOMAIN body) |->
     IF k = "tags" /\ Get(body, k).t = "undefined" THEN Arr(<<>>) ELSE body[k]]

\* the fields of body that noteUpdateSchema rejects
noteUpdateIssues(body) ==
  {k \in {"title", "content", "tags", "dueDate", "isArchived", "isDone"} :
     CASE k = "title" -> Get(body, k).t # "undefined" /\ ~stringOk(Get(body, k), 1, TitleMax)
       [] k = "content" -> Get(body, k).t # "undefined" /\ ~stringOk(Get(body, k), 1, ContentMax)
       [] k = "tags" -> Get(body, k).t # "undefined" /\ ~tagsOk(Get(body, k))
       [] k = "dueDate" -> ~dueDateOk(Get(body, k))
       [] OTHER -> Get(body, k).t \notin {"undefined", "boolean"}}

\* noteUpdateSchema that lets unrecognised keys through (z.object().passthrough())
noteUpdateSchemaPassthrough(body) == body

\* what noteUpdateSchema.parse returns: the recognised keys that are present
noteUpdateSchema(body) ==
  [k \in {"title", "content", "tags", "dueDate", "isArchived", "isDone"} \cap DOMAIN body |->
     body[k]]

\* validate(schema): req.validatedData and next(), or the 400 response
validate(schema, body) ==
  LET issues == IF schema = "create" THEN noteCreateIssues(body) ELSE noteUpdateIssues(body)
  IN IF issues = {}
     THEN [ok |-> TRUE,
           validatedData |-> IF schema = "create" THEN noteCreateSchema(body)
                             ELSE noteUpdateSchema(body)]
     ELSE [ok |-> FALSE, details |-> issues]

\* ------------------------------------------------------------------ inputs
DueDateText ==
  <<"2", "0", "2", "5", "-", "0", "1", "-", "0", "1", "T",
    "0", "0", ":", "0", "0", ":", "0", "0", "Z">>

\* request bodies of POST /notes: two that satisfy noteCreateSchema (the first
\* carries keys the schema does not know), two that violate it
CreateBodies ==
  <<[title |-> Str(<<"A", "b">>), content |-> Str(<<"c">>), tags |-> Arr(<<Str(<<"w">>)>>),
     dueDate |-> Null, id |-> Num(1), isDone |-> Bool(TRUE)],
    [title |-> Str(<<"b">>), content |-> Str(<<"a">>)],
    [title |-> Str(<<>>), tags |-> Arr(<<Str(<<"w">>)>>), dueDate |-> Str(DueDateText)],
    [title |-> Str([i \in 1..(TitleMax + 1) |-> "a"]), content |-> Num(5),
     tags |-> Arr([i \in 1..(TagsMax + 1) |-> Str(<<"w">>)]), dueDate |-> Str(<<"x">>)]>>

\* request bodies of PUT /notes/:id: three that satisfy noteUpdateSchema (the
\* second carries keys the schema does not know), one that violates it
UpdateBodies ==
  <<[title |-> Str(<<"b">>)],
    [isDone |-> Bool(TRUE), id |-> Num(1), createdAt |-> Str(<<"x">>)],
    <<>>,
    [title |-> Str(<<>>), isDone |-> Str(<<"y">>)]>>

\* the :id path segment as text
IdParams == {NatToStr(i) : i \in 1..MaxId} \cup {<<"x">>}

\* req.query as the query-string parser delivers it: every value is text, a
\* repeated key is an array of text
Queries ==
  <<<<>>,
    [isArchived |-> Str(<<"t", "r", "u", "e">>)],
    [tags |-> Str(<<"w">>)],
    [limit |-> Str(<<"0">>)],
    [limit |-> Str(<<"-", "1">>)],
    [limit |-> Str(<<"1">>), offset |-> Str(<<"-", "1">>)],
    [limit |-> Str(<<"a", "b", "c">>), offset |-> Str(<<"x">>)]>>

\* ----------------------------------------------------------------- actions
Init ==
  /\ notes = <<>>
  /\ currentId = 1
  /\ clock = 0
  /\ res = [op |-> "none"]
  /\ issued = <<>>
  /\ deleted = {}

\* time passes between two requests
Tick ==
  /\ clock < MaxClock
  /\ clock' = clock + 1
  /\ UNCHANGED <<notes, currentId, res, issued, deleted>>

\* POST /notes: validateNoteCreate, then createNote
PostNote(body) ==
  LET v == validate("create", body)
  IN IF ~v.ok
     THEN /\ res' = [op |-> "createNote", body |-> body, status |-> 400,
                     error |-> "Validation error", details |-> v.details]
          /\ UNCHANGED <<notes, currentId, clock, issued, deleted>>
     ELSE /\ currentId <= MaxId
          /\ \E t2 \in clock..Min(clock + 1, MaxClock) :
               LET c == create(notes, currentId, v.validatedData, clock, t2)
               IN /\ notes' = c.notes
                  /\ currentId' = c.currentId
                  /\ clock' = t2
                  /\ issued' = Append(issued, c.ret["id"].v)
                  /\ res' = [op |-> "createNote", body |-> body, status |-> 201,
                             error |-> "none", data |-> v.validatedData, ret |-> c.ret]
          /\ UNCHANGED deleted

\* PUT /notes/:id: validateNoteUpdate, then updateNote
PutNote(idText, body) ==
  LET v == validate("update", body)
      id == parseInt(Str(idText))
  IN IF ~v.ok
     THEN /\ res' = [op |-> "updateNote", id |-> id, body |-> body, status |-> 400,
                     error |-> "Validation error", details |-> v.details]
          /\ UNCHANGED <<notes, currentId, clock, issued, deleted>>
     ELSE LET u == update(notes, id, v.validatedData, clock)
          IN /\ notes' = u.notes
             /\ res' = [op |-> "updateNote", id |-> id, body |-> body,
                        status |-> IF IsNote(u.ret) THEN 200 ELSE 0,
                        error |-> IF IsNote(u.ret) THEN "none" ELSE "NotFoundError",
                        data |-> v.validatedData, ret |-> u.ret]
             /\ UNCHANGED <<currentId, clock, issued, deleted>>

\* DELETE /notes/:id
DeleteNote(idText) ==
  LET id == parseInt(Str(idText))
      d == delete(notes, id)
  IN /\ notes' = d.notes
     /\ deleted' = IF d.ret.v THEN deleted \cup {id.v} ELSE deleted
     /\ res' = [op |-> "deleteNote", id |-> id,
                status |-> IF d.ret.v THEN 204 ELSE 0,
                error |-> IF d.ret.v THEN "none" ELSE "NotFoundError", ret |-> d.ret]
     /\ UNCHANGED <<currentId, clock, issued>>

\* GET /notes/:id
GetNoteById(idText) ==
  LET id == parseInt(Str(idText))
      note == getById(notes, id)
  IN /\ res' = [op |-> "getNoteById", id |-> id,
                status |-> IF IsNote(note) THEN 200 ELSE 0,
                error |-> IF IsNote(note) THEN "none" ELSE "NotFoundError", ret |-> note]
     /\ UNCHANGED <<notes, currentId, clock, issued, deleted>>

\* the response to one of the four flag operations
flagResponse(op, id, r) ==
  [op |-> op, id |-> id,
   status |-> IF IsNote(r.ret) THEN 200 ELSE 0,
   error |-> IF IsNote(r.ret) THEN "none" ELSE "NotFoundError", ret |-> r.ret]

\* PATCH /notes/:id/archive
ArchiveNote(idText) ==
  LET id == parseInt(Str(idText))
      r == archive(notes, id, clock)
  IN /\ notes' = r.notes
     /\ res' = flagResponse("archiveNote", id, r)
     /\ UNCHANGED <<currentId, clock, issued, deleted>>

\* PATCH /notes/:id/unarchive
UnarchiveNote(idText) ==
  LET id == parseInt(Str(idText))
      r == unarchive(notes, id, clock)
  IN /\ notes' = r.notes
     /\ res' = flagResponse("unarchiveNote", id, r)
     /\ UNCHANGED <<currentId, clock, issued, deleted>>

\* notesStorage.markAsDone(id), which no route reaches: a direct call
MarkAsDone(n) ==
  LET r == markAsDone(notes, Num(n), clock)
  IN /\ notes' = r.notes
     /\ res' = flagResponse("markAsDone", Num(n), r)
     /\ UNCHANGED <<currentId, clock, issued, deleted>>

\* notesStorage.markAsUndone(id), which no route reaches: a direct call
MarkAsUndone(n) ==
  LET r == markAsUndone(notes, Num(n), clock)
  IN /\ notes' = r.notes
     /\ res' = flagResponse("markAsUndone", Num(n), r)
     /\ UNCHANGED <<currentId, clock, issued, deleted>>

\* GET /notes: getAllNotes hands req.query to the store as it is
GetAllNotes(query) ==
  LET result == getAll(notes, query)
  IN /\ res' = [op |-> "getAllNotes", filters |-> query,
                status |-> IF result.threw THEN 0 ELSE 200,
                error |-> IF result.threw THEN "TypeError" ELSE "none", ret |-> result]
     /\ UNCHANGED <<notes, currentId, clock, issued, deleted>>

Next ==
  \/ Tick
  \/ \E i \in 1..Len(CreateBodies) : PostNote(CreateBodies[i])
  \/ \E idText \in IdParams : \E i \in 1..Len(UpdateBodies) : PutNote(idText, UpdateBodies[i])
  \/ \E idText \in IdParams : DeleteNote(idText)
  \/ \E idText \in IdParams : GetNoteById(idText)
  \/ \E idText \in IdParams : ArchiveNote(idText)
  \/ \E idText \in IdParams : UnarchiveNote(idText)
  \/ \E n \in 1..MaxId : MarkAsDone(n)
  \/ \E n \in 1..MaxId : MarkAsUndone(n)
  \/ \E i \in 1..Len(Queries) : GetAllNotes(Queries[i])

Spec == Init /\ [][Next]_vars

\* ------------------------------------------------- the store under getAll
\* payloads as noteCreateSchema returns them
ListPayloads ==
  <<[title |-> Str(<<"A", "b">>), content |-> Str(<<"c">>), tags |-> Arr(<<Str(<<"w">>)>>)],
    [title |-> Str(<<"b">>), content |-> Str(<<"a">>),
     tags |-> Arr(<<Str(<<"x">>), Str(<<"y">>)>>)]>>

\* the note create makes of payload p under id i, after the flag operations
\* that leave it with isArchived = a and isDone = d
ListNote(i, p, a, d) ==
  Spread(create(<<>>, i, ListPayloads[p], 0, 0).ret,
         [isArchived |-> Bool(a), isDone |-> Bool(d)])

ListChoices == (1..Len(ListPayloads)) \X BOOLEAN \X BOOLEAN

\* the collections of at most MaxListNotes such notes, ids in creation order
ListStores ==
  UNION {{[i \in 1..n |-> ListNote(i, c[i][1], c[i][2], c[i][3])] :
            c \in [1..n -> ListChoices]} : n \in 0..MaxListNotes}

\* the filters objects a caller of getAll passes
ListFilters ==
  [q : {Undefined, Str(<<>>), Str(<<"a", "B">>), Str(<<"A">>)},
   tags : {Undefined, Arr(<<>>), Arr(<<Str(<<"w">>)>>), Arr(<<Str(<<"z">>), Str(<<"x">>)>>)},
   isArchived : {Undefined, Bool(TRUE), Bool(FALSE), Str(<<"t", "r", "u", "e">>)},
   isDone : {Undefined, Bool(TRUE), Bool(FALSE)}]

\* a store holding some notes and a call of getAll about to be made
InitList ==
  /\ notes \in ListStores
  /\ currentId = Len(notes) + 1
  /\ clock = 0
  /\ res \in {[op |-> "request", filters |-> f] : f \in ListFilters}
  /\ issued = [i \in 1..Len(notes) |-> i]
  /\ deleted = {}

\* notesStorage.getAll(filters), called directly
GetAll ==
  /\ res.op = "request"
  /\ res' = [op |-> "getAll", filters |-> res.filters, status |-> 0, error |-> "none",
             ret |-> getAll(notes, res.filters)]
  /\ UNCHANGED <<notes, currentId, clock, issued, deleted>>

NextList == GetAll

SpecList == InitList /\ [][NextList]_vars

\* ------------------------------------------------------------------ claims
Created == res.op = "createNote" /\ res.status = 201

\* C1: the ids returned by successive create calls are strictly increasing, so
\* no id is assigned twice, the ids of deleted notes included.
C1_IdsStrictlyIncreasing ==
  \A i, j \in 1..Len(issued) : i < j => issued[i] < issued[j]

\* a create that follows the deletion of an earlier note
C1_Witness ==
  /\ Created
  /\ Len(issued) >= 2
  /\ \E d \in deleted : d < res.ret["id"].v

\* C2: create followed immediately by getById of the returned id returns a note
\* equal to the one create returned, with isArchived = false, isDone = false and
\* createdAt equal to updatedAt.
C2_CreateThenGetById ==
  Created =>
    LET got == getById(notes, res.ret["id"])
    IN /\ IsNote(got)
       /\ got = res.ret
       /\ got["isArchived"] = Bool(FALSE)
       /\ got["isDone"] = Bool(FALSE)
       /\ got["createdAt"] = got["updatedAt"]

\* ---- the filters as section 4.2 of the specification reads them
FilterPresent(filters, k) == Get(filters, k).t # "undefined"

CaseInsensitiveSubstring(sub, s) ==
  \E i \in 0..(Len(s) - Len(sub)) :
    \A k \in 1..Len(sub) : toLowerCaseChar(s[i + k]) = toLowerCaseChar(sub[k])

SatisfiesQ(note, filters) ==
  FilterPresent(filters, "q") =>
    \/ CaseInsensitiveSubstring(filters["q"].v, note["title"].v)
    \/ CaseInsensitiveSubstring(filters["q"].v, note["content"].v)

SharesTag(note, filters) ==
  \E i \in 1..Len(filters["tags"].v) : \E j \in 1..Len(note["tags"].v) :
    filters["tags"].v[i] = note["tags"].v[j]

SatisfiesFlag(note, filters, k) ==
  FilterPresent(filters, k) => note[k] = filters[k]

\* every present filter holds of the note; a tags filter with no tag in it
\* counts as absent
Satisfies(note, filters) ==
  /\ SatisfiesQ(note, filters)
  /\ (FilterPresent(filters, "tags") /\ filters["tags"].v # <<>>) => SharesTag(note, filters)
  /\ SatisfiesFlag(note, filters, "isArchived")
  /\ SatisfiesFlag(note, filters, "isDone")

Matching(ns, filters) == SelectSeq(ns, LAMBDA n : Satisfies(n, filters))

Listed == res.op \in {"getAllNotes", "getAll"}

\* text that is no number, or a number below zero
NegativeOrNonNumeric(x) ==
  x.t = "string" /\ (x.v = <<>> \/ Head(x.v) = "-" \/ ~IsDigit(Head(x.v)))

\* C3: list with limit 0 returns zero items, and its total is the number of
\* notes that match the filters.
C3_LimitZeroReturnsNoItems ==
  (Listed /\ Get(res.filters, "limit") \in {Num(0), Str(<<"0">>)}) =>
    /\ ~res.ret.threw
    /\ res.ret.notes = <<>>
    /\ res.ret.total = Len(Matching(notes, res.filters))

\* C4: given a negative or a non-numeric limit or offset, list applies and
\* reports the default limit 10 and the default offset 0, and does not fail.
C4_BadPaginationFallsBack ==
  Listed =>
    /\ NegativeOrNonNumeric(Get(res.filters, "limit")) =>
         ~res.ret.threw /\ res.ret.limit = DefaultLimit
    /\ NegativeOrNonNumeric(Get(res.filters, "offset")) =>
         ~res.ret.threw /\ res.ret.offset = DefaultOffset

\* C5: after PATCH /notes/{id}/archive a note has isArchived = true and the
\* isDone it had, and GET /notes?isArchived=true lists it.
C5_ArchivedNoteIsListed ==
  [][/\ (res'.op = "archiveNote" /\ res'.status = 200) =>
          LET i == findIndex(notes, res'.id)
          IN /\ notes'[i]["isArchived"] = Bool(TRUE)
             /\ notes'[i]["isDone"] = notes[i]["isDone"]
     /\ (/\ res'.op = "getAllNotes"
         /\ Get(res'.filters, "isArchived") = Str(<<"t", "r", "u", "e">>)) =>
          /\ ~res'.ret.threw
          /\ \A i \in 1..Len(notes') :
               notes'[i]["isArchived"] = Bool(TRUE) =>
                 \E j \in 1..Len(res'.ret.notes) : res'.ret.notes[j] = notes'[i]]_vars

\* C6: update(id, partialPayload) on an existing note changes only the fields
\* named in partialPayload and updatedAt: the note's other fields, every other
\* note and the position of every note are as before the call.
C6_UpdateChangesOnlyNamedFields ==
  [][(res'.op = "updateNote" /\ res'.status = 200) =>
       LET i == findIndex(notes, res'.id)
           named == DOMAIN res'.data \cup {"updatedAt"}
       IN /\ Len(notes') = Len(notes)
          /\ \A k \in 1..Len(notes) : k # i => notes'[k] = notes[k]
          /\ notes'[i]["id"] = notes[i]["id"]
          /\ DOMAIN notes'[i] \ named = DOMAIN notes[i] \ named
          /\ \A f \in DOMAIN notes[i] \ named : notes'[i][f] = notes[i][f]]_vars

\* the first of two notes has just taken a new title from an update
C6_Witness ==
  /\ res.op = "updateNote" /\ res.status = 200
  /\ Len(notes) = 2
  /\ "title" \in DOMAIN res.data
  /\ res.id = notes[1]["id"]
  /\ notes[1]["title"] = Str(<<"b">>)
  /\ notes[1]["content"] = Str(<<"c">>)
  /\ notes[1]["updatedAt"].v > notes[1]["createdAt"].v

\* C7: once delete(id) has returned true, getById(id) reports not-found and
\* delete(id) returns false, in every later state: no create brings the id back.
C7_DeletedStaysDeleted ==
  \A d \in deleted :
    /\ ~IsNote(getById(notes, Num(d)))
    /\ delete(notes, Num(d)) = [notes |-> notes, ret |-> Bool(FALSE)]

\* a second delete of a removed id is refused while a later note is stored
C7_Witness ==
  /\ res.op = "deleteNote" /\ res.status = 0
  /\ res.id.v \in deleted
  /\ \E i \in 1..Len(notes) : notes[i]["id"].v > res.id.v

\* C8: list reports total as the number of matching notes before pagination and
\* hasMore as offset + limit < total, and returns the matching notes in
\* insertion order from position offset on, at most limit of them.
C8_PaginationWindow ==
  (Listed /\ ~res.ret.threw) =>
    LET m == Matching(notes, res.filters)
        r == res.ret
    IN /\ r.total = Len(m)
       /\ r.hasMore = (r.offset + r.limit < r.total)
       /\ Len(r.notes) <= r.limit
       /\ Len(r.notes) = Max(0, Min(r.limit, Len(m) - r.offset))
       /\ \A k \in 1..Len(r.notes) :
            (r.offset + k) \in 1..Len(m) /\ r.notes[k] = m[r.offset + k]

FlagOps == {"archiveNote", "unarchiveNote", "markAsDone", "markAsUndone"}

\* C10: a request that fails validation, and update, delete or a flag operation
\* on an id that matches no note, leave the notes and the id counter as they
\* were and report the failure as a value: the violation list with status 400,
\* null, or false.
C10_FailuresLeaveStoreUnchanged ==
  [][(res' # res) =>
       /\ (res'.op \in {"createNote", "updateNote"} /\ res'.status = 400) =>
            /\ notes' = notes /\ currentId' = currentId
            /\ res'.details # {}
       /\ (/\ res'.op \in FlagOps \cup {"updateNote", "deleteNote"}
           /\ res'.status # 400
           /\ ~IsNote(getById(notes, res'.id))) =>
            /\ notes' = notes /\ currentId' = currentId
            /\ res'.ret = IF res'.op = "deleteNote" THEN Bool(FALSE) ELSE Null]_vars

\* an operation on the id of a deleted note is refused while notes are stored
C10_Witness ==
  /\ res.op \in FlagOps \cup {"updateNote", "deleteNote"}
  /\ res.status = 0
  /\ notes # <<>>
  /\ res.id.v \in deleted

\* every present filter holds of the note, an empty tags filter included: the
\* note must then share a tag with it, and none does
SatisfiesAsStated(note, filters) ==
  /\ SatisfiesQ(note, filters)
  /\ FilterPresent(filters, "tags") => SharesTag(note, filters)
  /\ SatisfiesFlag(note, filters, "isArchived")
  /\ SatisfiesFlag(note, filters, "isDone")

\* C9 as stated: the notes list matches are exactly those that satisfy every
\* filter that is present (q, tags, isArchived, isDone); an absent filter
\* excludes no note.
C9_MatchesEveryPresentFilter ==
  res.op = "getAll" =>
    /\ ~res.ret.threw
    /\ res.ret.notes = SelectSeq(notes, LAMBDA n : SatisfiesAsStated(n, res.filters))

\* C9 as amended: the same, where a tags filter that is absent or empty
\* excludes no note.
C9_MatchesEveryNonEmptyFilter ==
  res.op = "getAll" =>
    /\ ~res.ret.threw
    /\ res.ret.total = Len(Matching(notes, res.filters))
    /\ res.ret.notes = Matching(notes, res.filters)

\* all four filters are given and keep one of two notes
C9_Witness ==
  /\ res.op = "getAll"
  /\ \A k \in {"q", "tags", "isArchived", "isDone"} : Truthy(res.filters[k])
  /\ Len(notes) = 2
  /\ res.ret.total = 1

\* the flag a flag operation writes, and the value it writes
FlagOf(op) == IF op \in {"archiveNote", "unarchiveNote"} THEN "isArchived" ELSE "isDone"

FlagValueOf(op) == Bool(op \in {"archiveNote", "markAsDone"})

\* C11: archive, unarchive, markAsDone and markAsUndone on an existing note set
\* their own flag to the stated value and refresh updatedAt, and leave the other
\* flag, every other field and every other note as they were; a note's flag
\* changes in no step but one of its own two operations or an update naming it.
C11_FlagOpsTouchOnlyTheirFlag ==
  [][(res' # res) =>
       /\ (res'.op \in FlagOps /\ res'.status = 200) =>
            LET i == findIndex(notes, res'.id)
                own == {FlagOf(res'.op), "updatedAt"}
            IN /\ Len(notes') = Len(notes)
               /\ \A k \in 1..Len(notes) : k # i => notes'[k] = notes[k]
               /\ notes'[i][FlagOf(res'.op)] = FlagValueOf(res'.op)
               /\ notes'[i]["updatedAt"] = Iso(clock)
               /\ DOMAIN notes'[i] = DOMAIN notes[i]
               /\ \A f \in DOMAIN notes[i] \ own : notes'[i][f] = notes[i][f]
       /\ \A k \in 1..Min(Len(notes), Len(notes')) :
            \A flag \in {"isArchived", "isDone"} :
              (notes'[k]["id"] = notes[k]["id"] /\ notes'[k][flag] # notes[k][flag]) =>
                \/ res'.op \in FlagOps /\ FlagOf(res'.op) = flag
                \/ res'.op = "updateNote" /\ flag \in DOMAIN res'.data]_vars

\* a note archived earlier, at a later millisecond, is marked done: both flags
\* are set, while the other note has neither
C11_Witness ==
  /\ res.op = "markAsDone" /\ res.status = 200
  /\ Len(notes) = 2
  /\ \E i, j \in 1..2 :
       /\ notes[i]["id"] = res.id
       /\ notes[i]["isArchived"] = Bool(TRUE) /\ notes[i]["isDone"] = Bool(TRUE)
       /\ notes[i]["updatedAt"].v > notes[i]["createdAt"].v
       /\ notes[j]["isArchived"] = Bool(FALSE) /\ notes[j]["isDone"] = Bool(FALSE)

\* C12: every stored note keeps the id and the createdAt it was given at
\* creation (the counter value and the clock reading of its create), and its
\* updatedAt is not earlier than its createdAt; no payload that passes
\* validation changes id or createdAt.
C12_IdAndCreatedAtAreFixed ==
  [][/\ IF Len(notes') >= Len(notes)
        THEN \A k \in 1..Len(notes) :
               /\ notes'[k]["id"] = notes[k]["id"]
               /\ notes'[k]["createdAt"] = notes[k]["createdAt"]
        ELSE \A k \in 1..Len(notes') : \E j \in 1..Len(notes) : notes'[k] = notes[j]
     /\ Len(notes') > Len(notes) =>
          /\ Len(notes') = Len(notes) + 1
          /\ notes'[Len(notes')]["id"] = Num(currentId)
          /\ notes'[Len(notes')]["createdAt"] = Iso(clock)
     /\ \A k \in 1..Len(notes') :
          notes'[k]["updatedAt"].v >= notes'[k]["createdAt"].v]_vars

\* a body that carries id and createdAt has updated the second note, created
\* from a body that carried an id too, a millisecond after its creation
C12_Witness ==
  /\ res.op = "updateNote" /\ res.status = 200
  /\ {"id", "createdAt"} \subseteq DOMAIN res.body
  /\ Len(notes) = 2
  /\ res.id = Num(2)
  /\ notes[2]["id"] = Num(2)
  /\ Get(notes[2], "dueDate") = Null
  /\ notes[2]["createdAt"] = Iso(0)
  /\ notes[2]["updatedAt"] = Iso(1)

====
